---- MODULE Spec2Model ----
(***************************************************************************)
(* A model of src/src/scripts/finetune.py: the execution of the module's   *)
(* top-level statements in file order, the entry function finetune, the    *)
(* two configuration builders and the weight-saving helper.                *)
(*                                                                         *)
(* Three specifications share the state:                                   *)
(*   SpecModule  the script run from its first line;                       *)
(*   SpecEntry   the run from the main guard (line 169), in the namespace  *)
(*               that the file's top-level statements bind in file order;  *)
(*   SpecSave    a call of safe_save_model_for_hf_trainer on a trainer     *)
(*               drawn from a bounded set.                                 *)
(* An optional value (a local not yet assigned) is a sequence of length 0  *)
(* or 1.                                                                   *)
(***************************************************************************)
EXTENDS Naturals, Sequences, FiniteSets

\* Bounds of the model.
MaxEntries == 2    \* entries in the output directory
MaxKey == 2        \* keys of a model state dict are 1..MaxKey
MaxVal == 1        \* tensor contents are 0..MaxVal

VARIABLES
    pc,          \* position of the run
    ip,          \* index in TopLevel of the next top-level statement
    ns,          \* module globals: name -> line of the statement that bound it
    err,         \* the exception that ended the run, or "none"
    errat,       \* line of the statement that raised it, 0 if none
    frame,       \* line of the finetune definition being run, 0 if none
    fs,          \* names of the entries of the output directory
    model_args, data_args, quant_args, qlora_args, training_args,   \* finetune locals
    bnb_config, peft_config, model, tokenizer,
    resume_from_checkpoint, checkpoints,
    trace,       \* the steps of the entry function begun so far, in order
    trainer, output_dir,                  \* arguments of the saving helper
    state_dict, cpu_state_dict,           \* its locals
    should_save_result,                   \* what trainer.args.should_save() returned
    saved        \* what has been written, in order

vars == <<pc, ip, ns, err, errat, frame, fs, model_args, data_args, quant_args, qlora_args,
          training_args, bnb_config, peft_config, model, tokenizer,
          resume_from_checkpoint, checkpoints, trace, trainer, output_dir,
          state_dict, cpu_state_dict, should_save_result, saved>>

entryLocals == <<model_args, data_args, quant_args, qlora_args, training_args, bnb_config,
                 peft_config, model, tokenizer, resume_from_checkpoint, checkpoints>>

saveVars == <<trainer, output_dir, state_dict, cpu_state_dict, should_save_result, saved>>

(***************************************************************************)
(* The top-level statements of the file, in file order.  names: the names  *)
(* the statement binds; uses: the global names it reads when it runs.      *)
(***************************************************************************)
TopLevel == <<
    [kind |-> "import", line |-> 1,   names |-> {"dataclass", "field"}, uses |-> {}],
    [kind |-> "import", line |-> 2,   names |-> {"Optional", "Dict"}, uses |-> {}],
    [kind |-> "import", line |-> 3,   names |-> {"logging"}, uses |-> {}],
    [kind |-> "import", line |-> 4,   names |-> {"nvidia_smi"}, uses |-> {}],
    [kind |-> "import", line |-> 6,   names |-> {"torch"}, uses |-> {}],
    [kind |-> "import", line |-> 7,   names |-> {"load_dataset"}, uses |-> {}],
    [kind |-> "import", line |-> 8,
     names |-> {"AutoModelForCausalLM", "AutoTokenizer", "PreTrainedTokenizer",
                "BitsAndBytesConfig", "HfArgumentParser", "Trainer", "TrainingArguments"},
     uses |-> {}],
    [kind |-> "import", line |-> 17,  names |-> {"LoraConfig", "AutoPeftModelForCausalLM"},
     uses |-> {}],
    [kind |-> "import", line |-> 21,  names |-> {"SFTTrainer"}, uses |-> {}],
    [kind |-> "assign", line |-> 23,  names |-> {"logger"}, uses |-> {"logging", "__name__"}],
    [kind |-> "expr",   line |-> 24,  names |-> {}, uses |-> {"logger", "logging"}],
    [kind |-> "class",  line |-> 26,  names |-> {"ModelArguments"},
     uses |-> {"dataclass", "Optional", "field"}],
    [kind |-> "class",  line |-> 37,  names |-> {"DataArguments"},
     uses |-> {"dataclass", "Optional", "field"}],
    [kind |-> "class",  line |-> 48,  names |-> {"ModelTrainingArguments"},
     uses |-> {"dataclass", "TrainingArguments", "Optional", "field"}],
    [kind |-> "class",  line |-> 62,  names |-> {"QuanitzationArguments"},
     uses |-> {"dataclass", "BitsAndBytesConfig", "Optional", "field", "torch"}],
    [kind |-> "class",  line |-> 82,  names |-> {"QloraArguments"},
     uses |-> {"dataclass", "LoraConfig", "Optional", "field"}],
    [kind |-> "def",    line |-> 106, names |-> {"safe_save_model_for_hf_trainer"},
     uses |-> {"Trainer"}],
    [kind |-> "def",    line |-> 117, names |-> {"preprocess_data"},
     uses |-> {"PreTrainedTokenizer", "Dict"}],
    [kind |-> "def",    line |-> 120, names |-> {"finetune"}, uses |-> {}],
    [kind |-> "def",    line |-> 126, names |-> {"build_bnb_config"},
     uses |-> {"BitsAndBytesConfig"}],
    [kind |-> "def",    line |-> 134, names |-> {"build_lora_config"},
     uses |-> {"LoraConfig"}],
    [kind |-> "def",    line |-> 144, names |-> {"finetune"}, uses |-> {}],
    [kind |-> "main",   line |-> 169, names |-> {}, uses |-> {"__name__", "finetune"}]
>>

\* Names every module has without binding them: the builtins the file reads.
Builtins == {"__name__", "list"}

\* Whether a global name resolves in namespace n.
Bound(n, name) == name \in DOMAIN n \/ name \in Builtins

Unbound(n, names) == \E x \in names : ~Bound(n, x)

\* The field declarations of each class body, in order.  "annotated" is
\* `name: T = field(...)`; "chained_subscript" is `name = T[x] = field(...)`,
\* which stores into a subscript of T.
ClassBody(line) ==
    CASE line = 26 -> <<[kind |-> "annotated", line |-> 28],
                        [kind |-> "annotated", line |-> 32]>>
      [] line = 37 -> <<[kind |-> "annotated", line |-> 39],
                        [kind |-> "annotated", line |-> 43]>>
      [] line = 48 -> <<[kind |-> "chained_subscript", line |-> 53],
                        [kind |-> "annotated", line |-> 57]>>
      [] line = 62 -> <<[kind |-> "annotated", line |-> 65],
                        [kind |-> "annotated", line |-> 69],
                        [kind |-> "annotated", line |-> 73],
                        [kind |-> "annotated", line |-> 77]>>
      [] line = 82 -> <<[kind |-> "annotated", line |-> 85],
                        [kind |-> "annotated", line |-> 89],
                        [kind |-> "annotated", line |-> 93],
                        [kind |-> "annotated", line |-> 97],
                        [kind |-> "annotated", line |-> 101]>>
      [] OTHER -> <<>>

\* Variant: every class body runs without error.
ClassBodyAlwaysOk(line) == "ok"

\* Running a class body: a store into a subscript of typing.Optional raises
\* TypeError (the special form supports no item assignment).
ClassBodyOutcome(line) ==
    IF \E i \in 1..Len(ClassBody(line)) : ClassBody(line)[i].kind = "chained_subscript"
    THEN "TypeError" ELSE "ok"

\* The line at which top-level statement s raises: in a class body, the first
\* declaration that stores into a subscript; otherwise the statement's line.
ErrorLine(s, out) ==
    IF s.kind = "class" /\ out = "TypeError"
    THEN LET b == ClassBody(s.line)
             i == CHOOSE j \in 1..Len(b) :
                     /\ b[j].kind = "chained_subscript"
                     /\ \A k \in 1..(j - 1) : b[k].kind # "chained_subscript"
         IN b[i].line
    ELSE s.line

\* The outcomes of running top-level statement s in namespace n.  An import
\* succeeds or fails with the installation.
Outcomes(s, n) ==
    IF Unbound(n, s.uses) THEN {"NameError"}
    ELSE CASE s.kind = "import" -> {"ok", "ImportError"}
           [] s.kind = "class"  -> {ClassBodyOutcome(s.line)}
           [] OTHER             -> {"ok"}

\* Variant: a name already bound keeps its first binding.
BindFirstWins(n, s) ==
    [x \in DOMAIN n \cup s.names |-> IF x \in DOMAIN n THEN n[x] ELSE s.line]

\* Binding the names of statement s: a name already bound is rebound.
Bind(n, s) ==
    [x \in DOMAIN n \cup s.names |-> IF x \in s.names THEN s.line ELSE n[x]]

EmptyNs == [x \in {} |-> 0]

RECURSIVE NamespaceAfter(_)
\* The namespace once the first k top-level statements have bound their names.
NamespaceAfter(k) == IF k = 0 THEN EmptyNs ELSE Bind(NamespaceAfter(k - 1), TopLevel[k])


Raise(type, line) ==
    /\ pc' = "error"
    /\ err' = type
    /\ errat' = line

(***************************************************************************)
(* The output directory.  An entry name is a sequence of text chunks; a    *)
(* glob pattern is a sequence of chunks in which "*" matches any run of    *)
(* chunks.                                                                 *)
(***************************************************************************)
EntryNames == {
    <<"checkpoint", "-", "500">>,
    <<"checkpoint", "-", "1000">>,
    <<"checkpoint", "-">>,
    <<"checkpoint">>,
    <<"runs">>,
    <<"old", "checkpoint", "-", "500">> }

Dirs == {d \in SUBSET EntryNames : Cardinality(d) <= MaxEntries}

CheckpointPattern == <<"checkpoint", "-", "*">>

RECURSIVE Match(_, _)
Match(p, s) ==
    IF p = <<>> THEN s = <<>>
    ELSE IF Head(p) = "*"
         THEN \E k \in 0..Len(s) : Match(Tail(p), SubSeq(s, k + 1, Len(s)))
         ELSE /\ s # <<>>
              /\ Head(s) = Head(p)
              /\ Match(Tail(p), Tail(s))

\* pathlib.Path(dir).glob(pattern) over the entries of dir.
Glob(entries, pattern) == {e \in entries : Match(pattern, e)}

(***************************************************************************)
(* The argument records, with the values process arguments can give them   *)
(* (the declared defaults among them).  lora_dropout is in tenths.         *)
(***************************************************************************)
ModelArgsSet ==
    [model_name : {"meta-llama/Llama-2-7b-hf", "gpt2"},
     new_model_name : {"airpodmaxsucks-7b-chat"}]

DataArgsSet ==
    [hf_data_path : {"iamtarun/python_code_instructions_18k_alpaca"},
     personal_data : {<<>>}]

TrainingArgsSet == [output_dir : {"results"}, cache_dir : {<<>>}, model_max_length : {512}]

QuantArgsSet ==
    [load_in_4bit : BOOLEAN,
     bnb_4bit_compute_dtype : {"float16", "bfloat16"},
     bnb_4bit_quant_type : {"nf4", "fp4"},
     use_nested_quant : BOOLEAN]

QloraArgsSet ==
    [lora_r : {16, 64},
     lora_alpha : {16, 64},
     lora_dropout : {0, 1},
     bias : {"none", "all"},
     task_type : {"CAUSAL_LM"}]

\* The configuration object is the record of the keyword arguments given to
\* its constructor; a field not given keeps the library's default.
build_bnb_config(q) ==
    [load_in_4bit |-> q.load_in_4bit,
     bnb_4bit_quant_type |-> q.bnb_4bit_compute_dtype,
     bnb_4bit_compute_dtype |-> q.bnb_4bit_compute_dtype]

\* Variant: rank and alpha fed from each other's field.
build_lora_config_swapped(a) ==
    [lora_alpha |-> a.lora_r,
     lora_dropout |-> a.lora_dropout,
     r |-> a.lora_alpha,
     bias |-> a.bias,
     task_type |-> a.task_type]

build_lora_config(a) ==
    [lora_alpha |-> a.lora_alpha,
     lora_dropout |-> a.lora_dropout,
     r |-> a.lora_r,
     bias |-> a.bias,
     task_type |-> a.task_type]

(***************************************************************************)
(* Module execution.                                                       *)
(***************************************************************************)
\* One top-level statement: it raises, or binds its names and moves on; the
\* main guard (the file is run as a script) calls whatever finetune is bound to.
ExecTopLevel ==
    /\ pc = "module"
    /\ ip \in 1..Len(TopLevel)
    /\ LET s == TopLevel[ip] IN
       \E out \in Outcomes(s, ns) :
          IF out # "ok"
          THEN /\ Raise(out, ErrorLine(s, out))
               /\ UNCHANGED <<ip, ns, frame>>
          ELSE IF s.kind = "main"
               THEN /\ pc' = "parser"
                    /\ frame' = ns["finetune"]
                    /\ UNCHANGED <<ip, ns, err, errat>>
               ELSE /\ pc' = IF ip = Len(TopLevel) THEN "done" ELSE "module"
                    /\ ip' = ip + 1
                    /\ ns' = Bind(ns, s)
                    /\ UNCHANGED <<frame, err, errat>>
    /\ UNCHANGED <<fs, entryLocals, trace, saveVars>>

(***************************************************************************)
(* The entry function.  Both definitions begin with the same two           *)
(* statements; they differ in the class names of the parser tuple.         *)
(***************************************************************************)
ParserTuple(f) ==
    IF f = 120
    THEN {"ModelArguments", "DataArguments", "ModelTrainingArguments",
          "QuantizationArguments", "QloraArguments"}
    ELSE {"ModelArguments", "DataArguments", "ModelTrainingArguments",
          "QuanitzationArguments", "QloraArguments"}

\* Lines 121-123 or 145-147.
BuildParser ==
    /\ pc = "parser"
    /\ trace' = Append(trace, "parser")
    /\ IF Unbound(ns, {"HfArgumentParser"} \cup ParserTuple(frame))
       THEN Raise("NameError", IF frame = 120 THEN 121 ELSE 145)
       ELSE /\ pc' = "parse"
            /\ UNCHANGED <<err, errat>>
    /\ UNCHANGED <<ip, ns, frame, fs, entryLocals, saveVars>>

\* Line 124 or 148: the parser rejects the process arguments and exits, or
\* yields the five records.  The first definition ends here.
ParseArgs ==
    /\ pc = "parse"
    /\ trace' = Append(trace, "parse_args")
    /\ \/ /\ Raise("SystemExit", IF frame = 120 THEN 124 ELSE 148)
          /\ UNCHANGED <<model_args, data_args, quant_args, qlora_args, training_args>>
       \/ \E m \in ModelArgsSet, d \in DataArgsSet, t \in TrainingArgsSet,
             q \in QuantArgsSet, a \in QloraArgsSet :
             /\ model_args' = <<m>>
             /\ data_args' = <<d>>
             /\ training_args' = <<t>>
             /\ quant_args' = <<q>>
             /\ qlora_args' = <<a>>
             /\ pc' = IF frame = 120 THEN "done" ELSE "bnb"
             /\ UNCHANGED <<err, errat>>
    /\ UNCHANGED <<ip, ns, frame, fs, bnb_config, peft_config, model, tokenizer,
                   resume_from_checkpoint, checkpoints, saveVars>>

\* Line 150.
BuildBnb ==
    /\ pc = "bnb"
    /\ trace' = Append(trace, "build_bnb_config")
    /\ IF Unbound(ns, {"build_bnb_config"})
       THEN /\ Raise("NameError", 150)
            /\ UNCHANGED bnb_config
       ELSE /\ bnb_config' = <<build_bnb_config(quant_args[1])>>
            /\ pc' = "lora"
            /\ UNCHANGED <<err, errat>>
    /\ UNCHANGED <<ip, ns, frame, fs, model_args, data_args, quant_args, qlora_args, training_args,
                   peft_config, model, tokenizer, resume_from_checkpoint, checkpoints,
                   saveVars>>

\* Line 151.
BuildLora ==
    /\ pc = "lora"
    /\ trace' = Append(trace, "build_lora_config")
    /\ IF Unbound(ns, {"build_lora_config"})
       THEN /\ Raise("NameError", 151)
            /\ UNCHANGED peft_config
       ELSE /\ peft_config' = <<build_lora_config(qlora_args[1])>>
            /\ pc' = "model"
            /\ UNCHANGED <<err, errat>>
    /\ UNCHANGED <<ip, ns, frame, fs, model_args, data_args, quant_args, qlora_args, training_args,
                   bnb_config, model, tokenizer, resume_from_checkpoint, checkpoints,
                   saveVars>>


\* Lines 153-157: the hub request fails, or the model is loaded.
LoadModel ==
    /\ pc = "model"
    /\ trace' = Append(trace, "model")
    /\ IF Unbound(ns, {"AutoModelForCausalLM"})
       THEN /\ Raise("NameError", 153)
            /\ UNCHANGED model
       ELSE \/ /\ Raise("OSError", 153)
               /\ model' = model
            \/ /\ model' = <<[name |-> model_args[1].model_name,
                              quantization_config |-> bnb_config[1],
                              device_map |-> "auto"]>>
               /\ pc' = "tokenizer"
               /\ UNCHANGED <<err, errat>>
    /\ UNCHANGED <<ip, ns, frame, fs, model_args, data_args, quant_args, qlora_args, training_args,
                   bnb_config, peft_config, tokenizer, resume_from_checkpoint,
                   checkpoints, saveVars>>

\* Variant: the tokenizer is requested under new_model_name.
LoadTokenizerNewName ==
    /\ pc = "tokenizer"
    /\ trace' = Append(trace, "tokenizer")
    /\ tokenizer' = <<[name |-> model_args[1].new_model_name,
                       eos_token |-> "</s>",
                       pad_token |-> <<>>]>>
    /\ pc' = "pad_token"
    /\ UNCHANGED <<ip, ns, err, errat, frame, fs, model_args, data_args, quant_args,
                   qlora_args, training_args, bnb_config, peft_config, model,
                   resume_from_checkpoint, checkpoints, saveVars>>

\* Line 159: the hub request fails, or the tokenizer is loaded.
LoadTokenizer ==
    /\ pc = "tokenizer"
    /\ trace' = Append(trace, "tokenizer")
    /\ IF Unbound(ns, {"AutoTokenizer"})
       THEN /\ Raise("NameError", 159)
            /\ UNCHANGED tokenizer
       ELSE \/ /\ Raise("OSError", 159)
               /\ tokenizer' = tokenizer
            \/ /\ tokenizer' = <<[name |-> model_args[1].model_name,
                                  eos_token |-> "</s>",
                                  pad_token |-> <<>>]>>
               /\ pc' = "pad_token"
               /\ UNCHANGED <<err, errat>>
    /\ UNCHANGED <<ip, ns, frame, fs, model_args, data_args, quant_args, qlora_args, training_args,
                   bnb_config, peft_config, model, resume_from_checkpoint,
                   checkpoints, saveVars>>

\* Line 160.
SetPadToken ==
    /\ pc = "pad_token"
    /\ tokenizer' = <<[tokenizer[1] EXCEPT !.pad_token = <<tokenizer[1].eos_token>>]>>
    /\ trace' = Append(trace, "pad_token")
    /\ pc' = "resume"
    /\ UNCHANGED <<ip, ns, err, errat, frame, fs, model_args, data_args, quant_args, qlora_args,
                   training_args, bnb_config, peft_config, model,
                   resume_from_checkpoint, checkpoints, saveVars>>

\* Variant: the flag is set from the directory's checkpoint entries.
AssignResumeFromListing ==
    /\ pc = "resume"
    /\ resume_from_checkpoint' = <<Glob(fs, CheckpointPattern) # {}>>
    /\ trace' = Append(trace, "resume_from_checkpoint")
    /\ pc' = "checkpoints"
    /\ UNCHANGED <<ip, ns, err, errat, frame, fs, model_args, data_args, quant_args, qlora_args,
                   training_args, bnb_config, peft_config, model, tokenizer,
                   checkpoints, saveVars>>

\* Line 163.
AssignResume ==
    /\ pc = "resume"
    /\ resume_from_checkpoint' = <<FALSE>>
    /\ trace' = Append(trace, "resume_from_checkpoint")
    /\ pc' = "checkpoints"
    /\ UNCHANGED <<ip, ns, err, errat, frame, fs, model_args, data_args, quant_args, qlora_args,
                   training_args, bnb_config, peft_config, model, tokenizer,
                   checkpoints, saveVars>>

\* Variant: the function goes on to construct a trainer.
CheckpointDiscoveryThenTrain ==
    /\ pc = "checkpoints"
    /\ checkpoints' = checkpoints
    /\ trace' = Append(Append(trace, "checkpoints"), "SFTTrainer")
    /\ trainer' = <<[model_state |-> [k \in {} |-> 0],
                     should_save |-> [callable |-> FALSE, value |-> TRUE]]>>
    /\ pc' = "done"
    /\ UNCHANGED <<ip, ns, err, errat, frame, fs, model_args, data_args, quant_args, qlora_args,
                   training_args, bnb_config, peft_config, model, tokenizer,
                   resume_from_checkpoint, output_dir, state_dict, cpu_state_dict,
                   should_save_result, saved>>

\* Lines 164-165, the last statement of the function: the names list and
\* pathlib are looked up; the listing is assigned and the function returns to
\* the main guard, which ends the module.
CheckpointDiscovery ==
    /\ pc = "checkpoints"
    /\ trace' = Append(trace, "checkpoints")
    /\ IF Unbound(ns, {"list", "pathlib"})
       THEN /\ Raise("NameError", 164)
            /\ UNCHANGED checkpoints
       ELSE /\ checkpoints' = <<Glob(fs, CheckpointPattern)>>
            /\ pc' = "done"
            /\ UNCHANGED <<err, errat>>
    /\ UNCHANGED <<ip, ns, frame, fs, model_args, data_args, quant_args, qlora_args, training_args,
                   bnb_config, peft_config, model, tokenizer, resume_from_checkpoint,
                   saveVars>>

(***************************************************************************)
(* safe_save_model_for_hf_trainer(trainer, output_dir).  A tensor is its   *)
(* contents and the device holding it; a state dict maps keys to tensors.  *)
(* trainer.args.should_save is an attribute that is callable (and returns  *)
(* value) or is the plain boolean value.                                   *)
(***************************************************************************)
Tensors == [data : 0..MaxVal, device : {"cuda", "cpu"}]

StateDicts == UNION {[K -> Tensors] : K \in SUBSET (1..MaxKey)}

Trainers == [model_state : StateDicts,
             should_save : [callable : BOOLEAN, value : BOOLEAN]]

\* Variant: the tensor is left on its device.
CpuIdentity(t) == t

\* Tensor.cpu(): the same contents in host memory.
Cpu(t) == [t EXCEPT !.device = "cpu"]

\* Line 111.
GetStateDict ==
    /\ pc = "state_dict"
    /\ state_dict' = <<trainer[1].model_state>>
    /\ pc' = "should_save"
    /\ UNCHANGED <<ip, ns, err, errat, frame, fs, entryLocals, trace, trainer,
                   output_dir, cpu_state_dict, should_save_result, saved>>

\* Variant: the result of should_save() is not tested.
ShouldSaveIgnored ==
    /\ pc = "should_save"
    /\ should_save_result' = <<trainer[1].should_save.value>>
    /\ pc' = "cpu"
    /\ UNCHANGED <<ip, ns, err, errat, frame, fs, entryLocals, trace, trainer,
                   output_dir, state_dict, cpu_state_dict, saved>>

\* Line 112: calling an attribute that is not callable raises TypeError; a
\* false result ends the function.
CallShouldSave ==
    /\ pc = "should_save"
    /\ IF ~trainer[1].should_save.callable
       THEN /\ Raise("TypeError", 112)
            /\ UNCHANGED should_save_result
       ELSE /\ should_save_result' = <<trainer[1].should_save.value>>
            /\ pc' = IF trainer[1].should_save.value THEN "cpu" ELSE "done"
            /\ UNCHANGED <<err, errat>>
    /\ UNCHANGED <<ip, ns, frame, fs, entryLocals, trace, trainer, output_dir,
                   state_dict, cpu_state_dict, saved>>

\* Lines 113-114.
ToCpu ==
    /\ pc = "cpu"
    /\ cpu_state_dict' = <<[k \in DOMAIN state_dict[1] |-> Cpu(state_dict[1][k])]>>
    /\ state_dict' = <<>>
    /\ pc' = "save"
    /\ UNCHANGED <<ip, ns, err, errat, frame, fs, entryLocals, trace, trainer,
                   output_dir, should_save_result, saved>>

\* Line 115.
Save ==
    /\ pc = "save"
    /\ saved' = Append(saved, [via |-> "trainer._save",
                               output_dir |-> output_dir,
                               state_dict |-> cpu_state_dict[1]])
    /\ pc' = "done"
    /\ UNCHANGED <<ip, ns, err, errat, frame, fs, entryLocals, trace, trainer,
                   output_dir, state_dict, cpu_state_dict, should_save_result>>

(***************************************************************************)
(* Specifications.                                                         *)
(***************************************************************************)
InitLocals ==
    /\ err = "none"
    /\ errat = 0
    /\ frame = 0
    /\ model_args = <<>>
    /\ data_args = <<>>
    /\ quant_args = <<>>
    /\ qlora_args = <<>>
    /\ training_args = <<>>
    /\ bnb_config = <<>>
    /\ peft_config = <<>>
    /\ model = <<>>
    /\ tokenizer = <<>>
    /\ resume_from_checkpoint = <<>>
    /\ checkpoints = <<>>
    /\ trace = <<>>
    /\ state_dict = <<>>
    /\ cpu_state_dict = <<>>
    /\ should_save_result = <<>>
    /\ saved = <<>>

\* The script is run from its first line, with any output directory.
InitModule ==
    /\ pc = "module"
    /\ ip = 1
    /\ ns = EmptyNs
    /\ fs \in Dirs
    /\ trainer = <<>>
    /\ output_dir = "results"
    /\ InitLocals

\* The run is at the main guard, every earlier statement having bound its names.
InitEntry ==
    /\ pc = "module"
    /\ ip = Len(TopLevel)
    /\ ns = NamespaceAfter(Len(TopLevel) - 1)
    /\ fs \in Dirs
    /\ trainer = <<>>
    /\ output_dir = "results"
    /\ InitLocals

\* The saving helper is called on some trainer.
InitSave ==
    /\ pc = "state_dict"
    /\ ip = Len(TopLevel)
    /\ ns = NamespaceAfter(Len(TopLevel) - 1)
    /\ fs = {}
    /\ trainer \in {<<t>> : t \in Trainers}
    /\ output_dir \in {"results", "results/final"}
    /\ InitLocals

NextModule == ExecTopLevel

NextEntry ==
    \/ ExecTopLevel
    \/ BuildParser
    \/ ParseArgs
    \/ BuildBnb
    \/ BuildLora
    \/ LoadModel
    \/ LoadTokenizer
    \/ SetPadToken
    \/ AssignResume
    \/ CheckpointDiscovery

NextSave ==
    \/ GetStateDict
    \/ CallShouldSave
    \/ ToCpu
    \/ Save

SpecModule == InitModule /\ [][NextModule]_vars

SpecEntry == InitEntry /\ [][NextEntry]_vars

SpecSave == InitSave /\ [][NextSave]_vars


(***************************************************************************)
(* Properties.                                                             *)
(***************************************************************************)
\* The positions at which a run has ended.
Ended == pc \in {"done", "error"}

Begun(step) == \E i \in 1..Len(trace) : trace[i] = step

\* C1: the configuration build_bnb_config returns has its quant-type field
\* equal to the arguments' bnb_4bit_quant_type and its compute-dtype field
\* equal to their bnb_4bit_compute_dtype.
C1_QuantTypeRouted ==
    bnb_config # <<>> =>
        /\ bnb_config[1].bnb_4bit_quant_type = quant_args[1].bnb_4bit_quant_type
        /\ bnb_config[1].bnb_4bit_compute_dtype = quant_args[1].bnb_4bit_compute_dtype

\* C2: the configuration build_bnb_config returns carries the 4-bit-load flag
\* of the arguments and a nested-quantization flag equal to use_nested_quant.
C2_FlagsCarried ==
    bnb_config # <<>> =>
        /\ bnb_config[1].load_in_4bit = quant_args[1].load_in_4bit
        /\ "bnb_4bit_use_double_quant" \in DOMAIN bnb_config[1]
        /\ bnb_config[1].bnb_4bit_use_double_quant = quant_args[1].use_nested_quant

\* C3: the configuration build_lora_config returns has rank, alpha, dropout,
\* bias and task type equal to the arguments' lora_r, lora_alpha,
\* lora_dropout, bias and task_type, no two fields swapped.
C3_LoraFieldsCopied ==
    peft_config # <<>> =>
        /\ DOMAIN peft_config[1] = {"r", "lora_alpha", "lora_dropout", "bias", "task_type"}
        /\ peft_config[1].r = qlora_args[1].lora_r
        /\ peft_config[1].lora_alpha = qlora_args[1].lora_alpha
        /\ peft_config[1].lora_dropout = qlora_args[1].lora_dropout
        /\ peft_config[1].bias = qlora_args[1].bias
        /\ peft_config[1].task_type = qlora_args[1].task_type

C3_Witness ==
    /\ peft_config # <<>>
    /\ qlora_args[1].lora_r # qlora_args[1].lora_alpha
    /\ peft_config[1].r = 64
    /\ peft_config[1].lora_alpha = 16

\* An entry whose name begins with "checkpoint-".
IsCheckpointName(e) == Len(e) >= 2 /\ e[1] = "checkpoint" /\ e[2] = "-"

\* C4: once the checkpoint-discovery statement has run, the listing holds
\* exactly the entries of the output directory named checkpoint-*: N of them
\* when N entries match, whatever the other entries.
C4_DiscoveryListsMatches ==
    (Begun("checkpoints") /\ pc # "checkpoints") =>
        /\ checkpoints # <<>>
        /\ checkpoints[1] = {e \in fs : IsCheckpointName(e)}
        /\ Cardinality(checkpoints[1]) = Cardinality({e \in fs : IsCheckpointName(e)})


\* C5: weights are written only through the trainer's save routine and only
\* after should_save() returned true; what is written has the key set of the
\* model's state dict at the call and, under each key, the host-memory copy of
\* that tensor; when should_save() did not return true, nothing is written.
C5_SaveOnlyCpuCopyWhenShouldSave ==
    /\ Len(saved) <= 1
    /\ \A i \in 1..Len(saved) :
          /\ saved[i].via = "trainer._save"
          /\ should_save_result = <<TRUE>>
          /\ DOMAIN saved[i].state_dict = DOMAIN trainer[1].model_state
          /\ \A k \in DOMAIN saved[i].state_dict :
                /\ saved[i].state_dict[k].device = "cpu"
                /\ saved[i].state_dict[k].data = trainer[1].model_state[k].data
    /\ (Ended /\ should_save_result # <<TRUE>>) => saved = <<>>

C5_Witness ==
    /\ pc = "done"
    /\ Len(saved) = 1
    /\ DOMAIN saved[1].state_dict # {}
    /\ \E k \in DOMAIN trainer[1].model_state : trainer[1].model_state[k].device = "cuda"

\* The steps that construct or run a trainer, or save its weights.
TrainingSteps == {"Trainer", "SFTTrainer", "train", "safe_save_model_for_hf_trainer"}

\* C6: in a run from the main guard no trainer is constructed or invoked and
\* the weight-saving helper is never entered: nothing is written, and the run
\* has ended without any training step.
C6_NoTrainingStep ==
    /\ trainer = <<>>
    /\ saved = <<>>
    /\ pc \notin {"state_dict", "should_save", "cpu", "save"}
    /\ \A i \in 1..Len(trace) : trace[i] \notin TrainingSteps

C6_Witness ==
    /\ Ended
    /\ tokenizer # <<>>
    /\ Begun("checkpoints")
    /\ trainer = <<>>

\* The index in TopLevel of the training-arguments record.
TrainingArgsIndex == CHOOSE i \in 1..Len(TopLevel) : TopLevel[i].names = {"ModelTrainingArguments"}

\* C7: the script never completes: a run that has stopped has stopped in an
\* error; the definition of the training-arguments record raises, and no
\* statement after it is run: the later names stay unbound and the entry
\* function is never called.
C7_ScriptNeverCompletes ==
    /\ pc \in {"module", "error"}
    /\ (~ENABLED NextModule) => (pc = "error" /\ err # "none")
    /\ ip <= TrainingArgsIndex
    /\ (ip = TrainingArgsIndex /\ pc = "error") => (err = "TypeError" /\ errat = 53)
    /\ \A k \in (TrainingArgsIndex)..Len(TopLevel) :
          \A x \in TopLevel[k].names : x \notin DOMAIN ns
    /\ frame = 0
    /\ trace = <<>>
    /\ bnb_config = <<>> /\ peft_config = <<>> /\ model = <<>> /\ tokenizer = <<>>
    /\ checkpoints = <<>>

C7_Witness ==
    /\ pc = "error"
    /\ err = "TypeError"
    /\ errat = 53
    /\ ip = TrainingArgsIndex
    /\ "DataArguments" \in DOMAIN ns
    /\ "ModelTrainingArguments" \notin DOMAIN ns

\* C8: the resume flag is False from its assignment on, whatever the output
\* directory holds, and the discovery statement is the last step of the run:
\* no step follows that could read the listing.
C8_ResumeFlagDead ==
    /\ resume_from_checkpoint \in {<<>>, <<FALSE>>}
    /\ Begun("resume_from_checkpoint") => resume_from_checkpoint = <<FALSE>>
    /\ (Begun("checkpoints") /\ pc # "checkpoints") => (Ended /\ ~ENABLED NextEntry)

C8_Witness ==
    /\ resume_from_checkpoint = <<FALSE>>
    /\ Begun("checkpoints")
    /\ Ended
    /\ \E e \in fs : IsCheckpointName(e)

\* The steps C9 orders, in the claimed order.
ClaimedOrder == <<"parse_args", "build_bnb_config", "build_lora_config", "model",
                  "tokenizer", "checkpoints">>

IsClaimedStep(x) == \E i \in 1..Len(ClaimedOrder) : ClaimedOrder[i] = x

IsPrefix(s, t) == Len(s) <= Len(t) /\ s = SubSeq(t, 1, Len(s))

\* C9: the steps of the entry function begin in the order argument parsing,
\* quantization-config build, adapter-config build, model acquisition,
\* tokenizer acquisition, checkpoint discovery; the model is requested with
\* the configuration build_bnb_config gives for the parsed quantization
\* arguments, and model and tokenizer under the same model_name.
C9_StepOrderAndRequests ==
    /\ IsPrefix(SelectSeq(trace, IsClaimedStep), ClaimedOrder)
    /\ model # <<>> =>
          /\ bnb_config # <<>>
          /\ model[1].quantization_config = bnb_config[1]
          /\ model[1].quantization_config = build_bnb_config(quant_args[1])
          /\ model[1].name = model_args[1].model_name
    /\ tokenizer # <<>> =>
          /\ model # <<>>
          /\ tokenizer[1].name = model[1].name

C9_Witness ==
    /\ SelectSeq(trace, IsClaimedStep) = ClaimedOrder
    /\ model # <<>>
    /\ tokenizer # <<>>
    /\ model[1].name = "gpt2"

\* C10: the call under the main guard runs the second definition of finetune
\* (line 144); the body of the first (line 120) is never run.
C10_SecondDefinitionRuns ==
    /\ frame \in {0, 144}
    /\ trace # <<>> => frame = 144
    /\ ~(pc = "error" /\ errat \in {121, 124})

C10_Witness ==
    /\ frame = 144
    /\ Begun("parser")
    /\ pc = "parse"

====
